---------------------------- MODULE Spec2Model ----------------------------
(***************************************************************************)
(* Model of buggy_cpp_samples/data_structure_bugs/data_structure_bugs.cpp  *)
(* (BinarySearchTree over BSTreeNode, PriorityQueue) and of                *)
(* buggy_cpp_samples/state_corruption/state_corruption.cpp (BankAccount).  *)
(*                                                                         *)
(* The objects share no state.  A behaviour exercises one of them, named   *)
(* by component; the others stay as constructed.                           *)
(*                                                                         *)
(* A tree value is either nullptr or a node record                         *)
(*   [data, left, right, height, subtree_size]                             *)
(* whose left and right fields are tree values again.  The code's          *)
(* shared_ptr graph is a tree (every node has one owner, no pointer is     *)
(* kept across calls), so a node is modelled by its value.                 *)
(***************************************************************************)
EXTENDS Integers, FiniteSets, Sequences, TLC

(***************************************************************************)
(* Bounds of the model.                                                    *)
(***************************************************************************)
\* keys are drawn from 1..MaxKey
MaxKey == 4
\* at most MaxCalls calls of insert and remove together
MaxCalls == 6
\* heap values are drawn from 1..MaxValue
MaxValue == 3
\* at most MaxPqInserts calls of PriorityQueue::insert by the free client
MaxPqInserts == 5
\* the long client inserts MaxLong values
MaxLong == 20
\* amounts are drawn from 0..MaxAmount, initial balances too
MaxAmount == 2
\* at most MaxTransactions accepted deposits and withdrawals
MaxTransactions == 3

Keys == 1..MaxKey
Values == 1..MaxValue
Amounts == 0..MaxAmount

(***************************************************************************)
(* <climits>, as used on line 48.                                          *)
(***************************************************************************)
INT_MAX == 2147483647
INT_MIN == -2147483647 - 1

\* the keys of the second tree client: the ends of int and one key between
LimitKeys == {INT_MIN, 0, INT_MAX}
ClientKeys(client) == IF client = "limits" THEN LimitKeys ELSE Keys

VARIABLES
    root,           \* BinarySearchTree::root
    total_nodes,    \* BinarySearchTree::total_nodes
    last,           \* the last call made on the tree, with what it returned
    tree_client,    \* "any": keys of 1..MaxKey; "limits": keys at and between
                    \* the ends of int
    present,        \* history: the keys inserted and not removed since
    n_insert,       \* history: number of insert calls
    n_remove,       \* history: number of remove calls
    dup_insert      \* history: some insert was given a key already present

VARIABLES
    heap,           \* PriorityQueue::heap, index i of the code is heap[i + 1]
    is_max_heap,    \* PriorityQueue::is_max_heap
    pq_last,        \* the last call made on the heap, with what it returned
    pq_client,      \* "any": free inserts; "main": the inserts of main, line
                    \* 337; "long": the inserts of long_values, none of them
                    \* after an extract_top
    pq_n_insert,    \* history: number of PriorityQueue::insert calls
    pq_phase,       \* history: "inserting" until the first extract_top call,
                    \* then "extracting", and "mixed" from the next insert on
    extracted,      \* history: the values extract_top returned since the
                    \* last insert, in order
    outstanding     \* history: for each value, the number of times it was
                    \* inserted minus the number of times extract_top
                    \* returned it

VARIABLES
    balance,                \* BankAccount::balance
    transaction_history,    \* BankAccount::transaction_history
    is_frozen,              \* BankAccount::is_frozen
    transaction_count,      \* BankAccount::transaction_count
    bank_last               \* the last call made on the account, with what
                            \* it returned

VARIABLES
    connections,            \* ConnectionPool::connections, by connection_id
    active_connections,     \* ConnectionPool::active_connections
    is_connected,           \* NetworkConnection::is_connected of every
                            \* connection made so far, by connection_id
    next_connection_id,     \* NetworkConnection::next_connection_id
    pool_last               \* the last call made on the pool or on one of
                            \* its connections, with what it returned

VARIABLES
    open_files,             \* FileManager::open_files, its keys
    output_files,           \* FileManager::output_files, its keys
    current_file_count,     \* FileManager::current_file_count
    disk,                   \* the names of the files that exist
    fm_last,                \* the last call made on the file manager, with
                            \* what it returned
    n_file_calls            \* history: number of calls made

VARIABLES
    mainResource,   \* the thread that holds the mutex mainResource, or "free"
    pagingResource, \* the thread that holds the mutex pagingResource, or "free"
    pc              \* for main and each of its two threads, the line it is at

VARIABLES
    frames,         \* the call stack of the thread of control when calls are
                    \* followed step by step (RunSpec): one record per
                    \* function entered and not yet left, the innermost last
    ret             \* what the function left last returned: [node |-> n],
                    \* [bool |-> b], [int |-> i] or [void |-> TRUE]

VARIABLE
    component       \* the object the behaviour exercises

tree == <<root, total_nodes>>
history == <<tree_client, present, n_insert, n_remove, dup_insert>>
tree_vars ==
    <<root, total_nodes, last, tree_client, present, n_insert, n_remove, dup_insert>>
pq == <<heap, is_max_heap>>
pq_history == <<pq_client, pq_n_insert, pq_phase, extracted, outstanding>>
pq_vars ==
    <<heap, is_max_heap, pq_last, pq_client, pq_n_insert, pq_phase, extracted,
      outstanding>>
account == <<balance, transaction_history, is_frozen, transaction_count>>
bank_vars == <<balance, transaction_history, is_frozen, transaction_count, bank_last>>
pool == <<connections, active_connections, is_connected, next_connection_id>>
pool_vars ==
    <<connections, active_connections, is_connected, next_connection_id,
      pool_last>>
file_manager == <<open_files, output_files, current_file_count, disk>>
file_vars ==
    <<open_files, output_files, current_file_count, disk, fm_last, n_file_calls>>
deadlock_vars == <<mainResource, pagingResource, pc>>
run_vars == <<frames, ret>>
vars ==
    <<component, tree_vars, pq_vars, bank_vars, pool_vars, file_vars,
      deadlock_vars, run_vars>>
beside_tree ==
    <<component, pq_vars, bank_vars, pool_vars, file_vars, deadlock_vars>>
beside_pq ==
    <<component, tree_vars, bank_vars, pool_vars, file_vars, deadlock_vars>>
outside_tree == <<beside_tree, run_vars>>
outside_pq == <<beside_pq, run_vars>>
outside_bank ==
    <<component, tree_vars, pq_vars, pool_vars, file_vars, deadlock_vars,
      run_vars>>
outside_pool ==
    <<component, tree_vars, pq_vars, bank_vars, file_vars, deadlock_vars,
      run_vars>>
outside_file_manager ==
    <<component, tree_vars, pq_vars, bank_vars, pool_vars, deadlock_vars,
      run_vars>>
outside_deadlock ==
    <<component, tree_vars, pq_vars, bank_vars, pool_vars, file_vars, run_vars>>

(***************************************************************************)
(* BSTreeNode                                                              *)
(***************************************************************************)
nullptr == [isnull |-> TRUE]

BSTreeNode(value) ==
    [data |-> value, left |-> nullptr, right |-> nullptr,
     height |-> 1, subtree_size |-> 1]

RECURSIVE insert_recursive(_, _)
RECURSIVE remove_recursive(_, _)
RECURSIVE find_min(_)
RECURSIVE search_recursive(_, _)
RECURSIVE check_bst_recursive(_, _, _)
RECURSIVE check_subtree_sizes(_)
RECURSIVE count_nodes(_)

(***************************************************************************)
(* BinarySearchTree::insert_recursive.  After the recursive call returns   *)
(* into node, lines 86-89 set subtree_size to 1, add the children's cached *)
(* sizes, and add 1 again; lines 92-94 set height to the sum of the        *)
(* children's cached heights (update_size_and_height).  The duplicate      *)
(* branch returns before both.                                             *)
(***************************************************************************)
update_size_and_height(node) ==
    LET left_size == IF node.left # nullptr THEN node.left.subtree_size ELSE 0
        right_size == IF node.right # nullptr THEN node.right.subtree_size ELSE 0
        left_height == IF node.left # nullptr THEN node.left.height ELSE 0
        right_height == IF node.right # nullptr THEN node.right.height ELSE 0
    IN  [node EXCEPT !.subtree_size = 1 + left_size + right_size + 1,
                     !.height = left_height + right_height]

\* insert_recursive with the duplicate test lost: an equal key goes right
insert_recursive_dup_right(node, value) ==
    IF node = nullptr THEN BSTreeNode(value)
    ELSE IF value < node.data
    THEN update_size_and_height(
             [node EXCEPT !.left = insert_recursive(node.left, value)])
    ELSE update_size_and_height(
             [node EXCEPT !.right = insert_recursive(node.right, value)])

insert_recursive(node, value) ==
    IF node = nullptr THEN BSTreeNode(value)
    ELSE IF value < node.data
    THEN update_size_and_height(
             [node EXCEPT !.left = insert_recursive(node.left, value)])
    ELSE IF value > node.data
    THEN update_size_and_height(
             [node EXCEPT !.right = insert_recursive(node.right, value)])
    ELSE node

(***************************************************************************)
(* BinarySearchTree::find_min: the leftmost node of a non-empty subtree.   *)
(***************************************************************************)
\* find_min without its loop: the node it was given
find_min_no_descent(node) == node

find_min(node) ==
    IF node.left # nullptr THEN find_min(node.left) ELSE node

(***************************************************************************)
(* BinarySearchTree::remove_recursive.  No branch touches subtree_size or  *)
(* height (lines 122-123 are a comment only).                              *)
(***************************************************************************)
\* remove_recursive returning the wrong child of a node without a left child
remove_recursive_drop_right(node, value) ==
    IF node = nullptr THEN nullptr
    ELSE IF value < node.data
    THEN [node EXCEPT !.left = remove_recursive(node.left, value)]
    ELSE IF value > node.data
    THEN [node EXCEPT !.right = remove_recursive(node.right, value)]
    ELSE IF node.left = nullptr THEN node.left
    ELSE IF node.right = nullptr THEN node.left
    ELSE LET min_node == find_min(node.right)
         IN  [node EXCEPT !.data = min_node.data,
                          !.right = remove_recursive(node.right, min_node.data)]

remove_recursive(node, value) ==
    IF node = nullptr THEN nullptr
    ELSE IF value < node.data
    THEN [node EXCEPT !.left = remove_recursive(node.left, value)]
    ELSE IF value > node.data
    THEN [node EXCEPT !.right = remove_recursive(node.right, value)]
    ELSE IF node.left = nullptr THEN node.right
    ELSE IF node.right = nullptr THEN node.left
    ELSE LET min_node == find_min(node.right)
         IN  [node EXCEPT !.data = min_node.data,
                          !.right = remove_recursive(node.right, min_node.data)]

(***************************************************************************)
(* BinarySearchTree::search_recursive                                      *)
(***************************************************************************)
search_recursive(node, value) ==
    IF node = nullptr THEN FALSE
    ELSE IF value = node.data THEN TRUE
    ELSE IF value < node.data THEN search_recursive(node.left, value)
    ELSE search_recursive(node.right, value)

(***************************************************************************)
(* The auditor: check_bst_recursive, check_subtree_sizes, count_nodes and  *)
(* check_bst_invariant, which returns the conjunction of the three checks. *)
(***************************************************************************)
check_bst_recursive(node, min_val, max_val) ==
    IF node = nullptr THEN TRUE
    ELSE IF node.data <= min_val \/ node.data >= max_val THEN FALSE
    ELSE /\ check_bst_recursive(node.left, min_val, node.data)
         /\ check_bst_recursive(node.right, node.data, max_val)

\* check_subtree_sizes accepting a cached size above the expected one
check_subtree_sizes_lenient(node) ==
    IF node = nullptr THEN TRUE
    ELSE LET left_size == IF node.left # nullptr THEN node.left.subtree_size ELSE 0
             right_size == IF node.right # nullptr THEN node.right.subtree_size ELSE 0
             expected_size == 1 + left_size + right_size
         IN  IF node.subtree_size < expected_size THEN FALSE
             ELSE check_subtree_sizes(node.left) /\ check_subtree_sizes(node.right)

check_subtree_sizes(node) ==
    IF node = nullptr THEN TRUE
    ELSE LET left_size == IF node.left # nullptr THEN node.left.subtree_size ELSE 0
             right_size == IF node.right # nullptr THEN node.right.subtree_size ELSE 0
             expected_size == 1 + left_size + right_size
         IN  IF node.subtree_size # expected_size THEN FALSE
             ELSE check_subtree_sizes(node.left) /\ check_subtree_sizes(node.right)

count_nodes(node) ==
    IF node = nullptr THEN 0
    ELSE 1 + count_nodes(node.left) + count_nodes(node.right)

is_valid_bst == check_bst_recursive(root, INT_MIN, INT_MAX)
sizes_correct == check_subtree_sizes(root)
count_correct == count_nodes(root) = total_nodes

check_bst_invariant == is_valid_bst /\ sizes_correct /\ count_correct

\* BinarySearchTree::search
search(value) == search_recursive(root, value)

(***************************************************************************)
(* The calls.  insert and remove are the code's two lines each; the        *)
(* history variables record what was asked of the tree.  Both are declared *)
(* void: whatever the key and the tree, the caller gets nothing back.      *)
(***************************************************************************)
insert_returns(value) == "void"
remove_returns(value) == "void"

BinarySearchTree_new ==
    /\ root = nullptr
    /\ total_nodes = 0
    /\ last = [op |-> "new"]
    /\ present = {}
    /\ n_insert = 0
    /\ n_remove = 0
    /\ dup_insert = FALSE

\* insert with the count left alone
insert_no_count(value) ==
    /\ component = "BinarySearchTree"
    /\ value \in ClientKeys(tree_client)
    /\ n_insert + n_remove < MaxCalls
    /\ root' = insert_recursive(root, value)
    /\ total_nodes' = total_nodes
    /\ last' = [op |-> "insert", value |-> value, returned |-> insert_returns(value)]
    /\ present' = present \cup {value}
    /\ n_insert' = n_insert + 1
    /\ dup_insert' = (dup_insert \/ value \in present)
    /\ UNCHANGED <<tree_client, n_remove, outside_tree>>

insert(value) ==
    /\ component = "BinarySearchTree"
    /\ value \in ClientKeys(tree_client)
    /\ n_insert + n_remove < MaxCalls
    /\ root' = insert_recursive(root, value)
    /\ total_nodes' = total_nodes + 1
    /\ last' = [op |-> "insert", value |-> value, returned |-> insert_returns(value)]
    /\ present' = present \cup {value}
    /\ n_insert' = n_insert + 1
    /\ dup_insert' = (dup_insert \/ value \in present)
    /\ UNCHANGED <<tree_client, n_remove, outside_tree>>

remove(value) ==
    /\ component = "BinarySearchTree"
    /\ value \in ClientKeys(tree_client)
    /\ n_insert + n_remove < MaxCalls
    /\ root' = remove_recursive(root, value)
    /\ total_nodes' = total_nodes - 1
    /\ last' = [op |-> "remove", value |-> value, returned |-> remove_returns(value)]
    /\ present' = present \ {value}
    /\ n_remove' = n_remove + 1
    /\ UNCHANGED <<tree_client, n_insert, dup_insert, outside_tree>>

call_search(value) ==
    /\ component = "BinarySearchTree"
    /\ value \in ClientKeys(tree_client)
    /\ last' = [op |-> "search", value |-> value, result |-> search(value)]
    /\ UNCHANGED <<tree, history, outside_tree>>

\* check_bst_invariant setting total_nodes to the count it has just made
call_check_bst_invariant_repairing ==
    /\ component = "BinarySearchTree"
    /\ last' = [op |-> "check_bst_invariant", result |-> check_bst_invariant]
    /\ total_nodes' = count_nodes(root)
    /\ UNCHANGED <<root, history, outside_tree>>

call_check_bst_invariant ==
    /\ component = "BinarySearchTree"
    /\ last' = [op |-> "check_bst_invariant", result |-> check_bst_invariant]
    /\ UNCHANGED <<tree, history, outside_tree>>

(***************************************************************************)
(* PriorityQueue.  The code indexes heap from 0; At and swap translate.    *)
(***************************************************************************)
\* main's heap_values, line 337
heap_values == <<5, 10, 3, 8, 15, 2, 12, 7>>

\* MaxLong pairwise distinct values in no order, for heaps beyond the
\* sizes the free client reaches
long_values == [i \in 1..MaxLong |-> (7 * i) % (MaxLong + 3)]

\* what a scripted client inserts
Feed(client) == IF client = "main" THEN heap_values ELSE long_values

Range(q) == {q[i] : i \in 1..Len(q)}

\* every value a client inserts
PqValues == Values \cup Range(heap_values) \cup Range(long_values)

At(h, index) == h[index + 1]

\* a swap that writes one way only
swap_overwriting(h, i, j) == [h EXCEPT ![i + 1] = h[j + 1]]

\* std::swap(heap[i], heap[j])
swap(h, i, j) == [h EXCEPT ![i + 1] = h[j + 1], ![j + 1] = h[i + 1]]

RECURSIVE heap_up(_, _)
RECURSIVE heap_down(_, _)
RECURSIVE check_heap_from(_, _)

\* heap_up that leaves heaps of up to three elements alone
heap_up_small_skipped(h, index) ==
    IF index = 0 \/ Len(h) <= 3 THEN h
    ELSE LET parent == (index - 1) \div 2
             should_swap == IF is_max_heap THEN At(h, index) > At(h, parent)
                                           ELSE At(h, index) < At(h, parent)
         IN  IF should_swap THEN heap_up(swap(h, index, parent), parent) ELSE h

\* PriorityQueue::heap_up, on the vector h
heap_up(h, index) ==
    IF index = 0 THEN h
    ELSE LET parent == (index - 1) \div 2
             should_swap == IF is_max_heap THEN At(h, index) > At(h, parent)
                                           ELSE At(h, index) < At(h, parent)
         IN  IF should_swap THEN heap_up(swap(h, index, parent), parent) ELSE h

\* PriorityQueue::heap_down, on the vector h
heap_down(h, index) ==
    LET left_child == 2 * index + 1
        right_child == 2 * index + 2
        target1 ==
            IF left_child < Len(h)
               /\ (IF is_max_heap THEN At(h, left_child) > At(h, index)
                                  ELSE At(h, left_child) < At(h, index))
            THEN left_child ELSE index
        target ==
            IF right_child < Len(h)
               /\ (IF is_max_heap THEN At(h, right_child) > At(h, target1)
                                  ELSE At(h, right_child) < At(h, target1))
            THEN right_child ELSE target1
    IN  IF target # index THEN heap_down(swap(h, index, target), target) ELSE h

\* the vector after PriorityQueue::insert: push_back, then heap_up from the
\* last index
insert_heap(h, value) == heap_up(Append(h, value), Len(h))

\* the vector after PriorityQueue::extract_top on a non-empty h: the last
\* element goes to index 0, and heap_down runs only if more than three
\* elements are left (line 222)
extract_top_heap(h) ==
    LET moved == [h EXCEPT ![1] = h[Len(h)]]
        popped == SubSeq(moved, 1, Len(h) - 1)
    IN  IF popped # <<>>
        THEN IF Len(popped) > 3 THEN heap_down(popped, 0) ELSE popped
        ELSE popped

\* PriorityQueue::check_heap_property, its loop from index i on
\* check_heap_property taking an equal parent and child for a violation
check_heap_from_strict(h, i) ==
    IF ~(i < Len(h)) THEN TRUE
    ELSE LET left_child == 2 * i + 1
             right_child == 2 * i + 2
             left_valid ==
                 IF left_child < Len(h)
                 THEN IF is_max_heap THEN At(h, i) > At(h, left_child)
                                     ELSE At(h, i) < At(h, left_child)
                 ELSE TRUE
             right_valid ==
                 IF right_child < Len(h)
                 THEN IF is_max_heap THEN At(h, i) > At(h, right_child)
                                     ELSE At(h, i) < At(h, right_child)
                 ELSE TRUE
         IN  IF ~left_valid THEN FALSE
             ELSE IF ~right_valid THEN FALSE
             ELSE check_heap_from(h, i + 1)

check_heap_from(h, i) ==
    IF ~(i < Len(h)) THEN TRUE
    ELSE LET left_child == 2 * i + 1
             right_child == 2 * i + 2
             left_valid ==
                 IF left_child < Len(h)
                 THEN IF is_max_heap THEN At(h, i) >= At(h, left_child)
                                     ELSE At(h, i) <= At(h, left_child)
                 ELSE TRUE
             right_valid ==
                 IF right_child < Len(h)
                 THEN IF is_max_heap THEN At(h, i) >= At(h, right_child)
                                     ELSE At(h, i) <= At(h, right_child)
                 ELSE TRUE
         IN  IF ~left_valid THEN FALSE
             ELSE IF ~right_valid THEN FALSE
             ELSE check_heap_from(h, i + 1)

check_heap_property == check_heap_from(heap, 0)

\* PriorityQueue::PriorityQueue; main builds a max heap (line 334)
PriorityQueue_new ==
    /\ heap = <<>>
    /\ pq_last = [op |-> "new"]
    /\ pq_n_insert = 0
    /\ pq_phase = "inserting"
    /\ extracted = <<>>
    /\ outstanding = [v \in PqValues |-> 0]
    /\ \/ component = "PriorityQueue" /\ pq_client = "any" /\ is_max_heap \in BOOLEAN
       \/ component = "PriorityQueue" /\ pq_client = "main" /\ is_max_heap = TRUE
       \/ component = "PriorityQueue" /\ pq_client = "long" /\ is_max_heap \in BOOLEAN
       \/ component # "PriorityQueue" /\ pq_client = "any" /\ is_max_heap = TRUE

\* PriorityQueue::insert
pq_insert(value) ==
    /\ component = "PriorityQueue"
    /\ \/ pq_client = "any" /\ pq_n_insert < MaxPqInserts /\ value \in Values
       \/ /\ pq_client \in {"main", "long"}
          /\ pq_client = "long" => pq_phase = "inserting"
          /\ pq_n_insert < Len(Feed(pq_client))
          /\ value = Feed(pq_client)[pq_n_insert + 1]
    /\ heap' = insert_heap(heap, value)
    /\ pq_last' = [op |-> "insert", value |-> value]
    /\ pq_n_insert' = pq_n_insert + 1
    /\ pq_phase' = IF pq_phase = "inserting" THEN "inserting" ELSE "mixed"
    /\ extracted' = <<>>
    /\ outstanding' = [outstanding EXCEPT ![value] = @ + 1]
    /\ UNCHANGED <<is_max_heap, pq_client, outside_pq>>

\* extract_top answering an empty heap with a value instead of throwing
pq_extract_top_no_throw ==
    /\ component = "PriorityQueue"
    /\ IF heap = <<>>
       THEN /\ pq_last' = [op |-> "extract_top", threw |-> FALSE, top |-> 0]
            /\ UNCHANGED <<heap, extracted, outstanding>>
       ELSE /\ heap' = extract_top_heap(heap)
            /\ pq_last' = [op |-> "extract_top", threw |-> FALSE, top |-> At(heap, 0)]
            /\ extracted' = Append(extracted, At(heap, 0))
            /\ outstanding' = [outstanding EXCEPT ![At(heap, 0)] = @ - 1]
    /\ pq_phase' = IF pq_phase = "inserting" THEN "extracting" ELSE pq_phase
    /\ UNCHANGED <<is_max_heap, pq_client, pq_n_insert, outside_pq>>

\* PriorityQueue::extract_top: throws std::runtime_error on an empty heap
\* before it touches anything, and returns the old heap[0] otherwise
pq_extract_top ==
    /\ component = "PriorityQueue"
    /\ IF heap = <<>>
       THEN /\ pq_last' = [op |-> "extract_top", threw |-> TRUE,
                           what |-> "Heap is empty"]
            /\ UNCHANGED <<heap, extracted, outstanding>>
       ELSE /\ heap' = extract_top_heap(heap)
            /\ pq_last' = [op |-> "extract_top", threw |-> FALSE, top |-> At(heap, 0)]
            /\ extracted' = Append(extracted, At(heap, 0))
            /\ outstanding' = [outstanding EXCEPT ![At(heap, 0)] = @ - 1]
    /\ pq_phase' = IF pq_phase = "inserting" THEN "extracting" ELSE pq_phase
    /\ UNCHANGED <<is_max_heap, pq_client, pq_n_insert, outside_pq>>

call_check_heap_property ==
    /\ component = "PriorityQueue"
    /\ pq_last' = [op |-> "check_heap_property", result |-> check_heap_property]
    /\ UNCHANGED <<pq, pq_history, outside_pq>>

(***************************************************************************)
(* BankAccount.  Amounts are whole numbers, which double holds exactly.    *)
(***************************************************************************)
RECURSIVE calculated_balance(_)

\* the loop of check_invariants, lines 89-92
calculated_balance(h) ==
    IF h = <<>> THEN 0 ELSE calculated_balance(SubSeq(h, 1, Len(h) - 1)) + h[Len(h)]

Abs(x) == IF x < 0 THEN -x ELSE x

\* std::abs(balance - calculated_balance) < 0.01
balance_correct ==
    100 * Abs(balance - calculated_balance(transaction_history)) < 1
bank_count_correct == transaction_count = Len(transaction_history)
balance_positive == balance >= 0

\* BankAccount::check_invariants
check_invariants == balance_correct /\ bank_count_correct /\ balance_positive

\* BankAccount::BankAccount
BankAccount_new ==
    /\ balance \in (IF component = "BankAccount" THEN Amounts ELSE {0})
    /\ transaction_history = <<balance>>
    /\ is_frozen = FALSE
    /\ transaction_count = 1
    /\ bank_last = [op |-> "new"]

\* deposit with the frozen test of lines 31-34 lost
deposit_when_frozen(amount) ==
    /\ component = "BankAccount"
    /\ Len(transaction_history) <= MaxTransactions
    /\ IF amount <= 0
       THEN /\ bank_last' = [op |-> "deposit", amount |-> amount, returned |-> FALSE]
            /\ UNCHANGED account
       ELSE /\ balance' = balance + amount
            /\ transaction_history' = Append(transaction_history, amount)
            /\ bank_last' = [op |-> "deposit", amount |-> amount, returned |-> TRUE]
            /\ UNCHANGED <<is_frozen, transaction_count>>
    /\ UNCHANGED outside_bank

\* BankAccount::deposit
deposit(amount) ==
    /\ component = "BankAccount"
    /\ Len(transaction_history) <= MaxTransactions
    /\ IF is_frozen \/ amount <= 0
       THEN /\ bank_last' = [op |-> "deposit", amount |-> amount, returned |-> FALSE]
            /\ UNCHANGED account
       ELSE /\ balance' = balance + amount
            /\ transaction_history' = Append(transaction_history, amount)
            /\ bank_last' = [op |-> "deposit", amount |-> amount, returned |-> TRUE]
            /\ UNCHANGED <<is_frozen, transaction_count>>
    /\ UNCHANGED outside_bank

\* BankAccount::withdraw
withdraw(amount) ==
    /\ component = "BankAccount"
    /\ Len(transaction_history) <= MaxTransactions
    /\ IF is_frozen \/ amount <= 0
       THEN /\ bank_last' = [op |-> "withdraw", amount |-> amount, returned |-> FALSE]
            /\ UNCHANGED account
       ELSE /\ balance' = balance - amount
            /\ transaction_history' = Append(transaction_history, -amount)
            /\ transaction_count' = transaction_count + 1
            /\ bank_last' = [op |-> "withdraw", amount |-> amount, returned |-> TRUE]
            /\ UNCHANGED is_frozen
    /\ UNCHANGED outside_bank

\* BankAccount::freeze_account
freeze_account ==
    /\ component = "BankAccount"
    /\ is_frozen' = TRUE
    /\ bank_last' = [op |-> "freeze_account"]
    /\ UNCHANGED <<balance, transaction_history, transaction_count, outside_bank>>

\* BankAccount::unfreeze_account
unfreeze_account ==
    /\ component = "BankAccount"
    /\ is_frozen' = FALSE
    /\ bank_last' = [op |-> "unfreeze_account"]
    /\ UNCHANGED <<balance, transaction_history, transaction_count, outside_bank>>

call_check_invariants ==
    /\ component = "BankAccount"
    /\ bank_last' = [op |-> "check_invariants", returned |-> check_invariants]
    /\ UNCHANGED <<account, outside_bank>>

(***************************************************************************)
(* buggy_cpp_samples/resource_leaks/resource_leaks.cpp: ConnectionPool and *)
(* the NetworkConnection objects it hands out.  A connection is known by   *)
(* its connection_id; the client keeps the shared_ptr it was given, so a   *)
(* connection outlives its place in the pool.  connect() always succeeds.  *)
(***************************************************************************)
\* main's pool, line 318: ConnectionPool pool(3)
max_connections == 3

\* ConnectionPool::ConnectionPool; no NetworkConnection exists yet
ConnectionPool_new ==
    /\ connections = <<>>
    /\ active_connections = 0
    /\ is_connected = <<>>
    /\ next_connection_id = 1
    /\ pool_last = [op |-> "new"]

\* ConnectionPool::get_connection; it returns the new connection, or
\* nullptr (0 here) when the counter has reached max_connections
get_connection ==
    /\ component = "ConnectionPool"
    /\ IF active_connections >= max_connections
       THEN /\ pool_last' = [op |-> "get_connection", returned |-> 0]
            /\ UNCHANGED pool
       ELSE /\ next_connection_id' = next_connection_id + 1
            /\ is_connected' = Append(is_connected, TRUE)
            /\ connections' = Append(connections, next_connection_id)
            /\ active_connections' = active_connections + 1
            /\ pool_last' = [op |-> "get_connection",
                             returned |-> next_connection_id]
    /\ UNCHANGED outside_pool

\* ConnectionPool::release_connection
release_connection(connection_id) ==
    /\ component = "ConnectionPool"
    /\ IF connection_id \in Range(connections)
       THEN /\ is_connected' = [is_connected EXCEPT ![connection_id] = FALSE]
            /\ connections' = SelectSeq(connections,
                                       LAMBDA id : id # connection_id)
       ELSE UNCHANGED <<is_connected, connections>>
    /\ pool_last' = [op |-> "release_connection", connection_id |-> connection_id]
    /\ UNCHANGED <<active_connections, next_connection_id, outside_pool>>

\* ConnectionPool::cleanup_disconnected
cleanup_disconnected ==
    /\ component = "ConnectionPool"
    /\ connections' = SelectSeq(connections, LAMBDA id : is_connected[id])
    /\ pool_last' = [op |-> "cleanup_disconnected"]
    /\ UNCHANGED <<active_connections, is_connected, next_connection_id,
                   outside_pool>>

\* NetworkConnection::disconnect, called by the client on a connection it
\* was given
disconnect(connection_id) ==
    /\ component = "ConnectionPool"
    /\ connection_id \in DOMAIN is_connected
    /\ is_connected' = [is_connected EXCEPT ![connection_id] = FALSE]
    /\ pool_last' = [op |-> "disconnect", connection_id |-> connection_id]
    /\ UNCHANGED <<connections, active_connections, next_connection_id,
                   outside_pool>>

\* ConnectionPool::status_report: the counter and the size it prints
status_report ==
    /\ component = "ConnectionPool"
    /\ pool_last' = [op |-> "status_report",
                     active_connections_counter |-> active_connections,
                     actual_connections |-> Len(connections)]
    /\ UNCHANGED <<pool, outside_pool>>

(***************************************************************************)
(* buggy_cpp_samples/resource_leaks/resource_leaks.cpp: FileManager.  The  *)
(* two maps are known by their keys.  A file opens for reading when it     *)
(* exists; whether a file can be created is up to the file system.         *)
(***************************************************************************)
\* main's manager, line 278: FileManager file_mgr(5)
max_open_files == 5

\* the most calls a client makes on the file manager
MaxFileCalls == 6

\* the names main uses: a file it wrote beforehand, a file that does not
\* exist, and a file it has the manager create
FileNames == {"test1.txt", "nonexistent.txt", "output1.txt"}

\* FileManager::FileManager, after main has written its test file
FileManager_new ==
    /\ open_files = {}
    /\ output_files = {}
    /\ current_file_count = 0
    /\ disk = {"test1.txt"}
    /\ fm_last = [op |-> "new"]
    /\ n_file_calls = 0

\* FileManager::open_file_for_reading
open_file_for_reading(filename) ==
    /\ component = "FileManager"
    /\ n_file_calls < MaxFileCalls
    /\ n_file_calls' = n_file_calls + 1
    /\ IF current_file_count >= max_open_files
       THEN /\ fm_last' = [op |-> "open_file_for_reading",
                           filename |-> filename, returned |-> FALSE]
            /\ UNCHANGED file_manager
       ELSE IF filename \in open_files
       THEN /\ fm_last' = [op |-> "open_file_for_reading",
                           filename |-> filename, returned |-> TRUE]
            /\ UNCHANGED file_manager
       ELSE IF filename \notin disk
       THEN /\ fm_last' = [op |-> "open_file_for_reading",
                           filename |-> filename, returned |-> FALSE]
            /\ UNCHANGED file_manager
       ELSE /\ open_files' = open_files \cup {filename}
            /\ current_file_count' = current_file_count + 1
            /\ fm_last' = [op |-> "open_file_for_reading",
                           filename |-> filename, returned |-> TRUE]
            /\ UNCHANGED <<output_files, disk>>
    /\ UNCHANGED outside_file_manager

\* FileManager::create_output_file; is_open says whether the file system
\* let the file be created
create_output_file(filename, is_open) ==
    /\ component = "FileManager"
    /\ n_file_calls < MaxFileCalls
    /\ n_file_calls' = n_file_calls + 1
    /\ IF current_file_count >= max_open_files \/ ~is_open
       THEN /\ fm_last' = [op |-> "create_output_file",
                           filename |-> filename, returned |-> FALSE]
            /\ UNCHANGED file_manager
       ELSE /\ output_files' = output_files \cup {filename}
            /\ current_file_count' = current_file_count + 1
            /\ disk' = disk \cup {filename}
            /\ fm_last' = [op |-> "create_output_file",
                           filename |-> filename, returned |-> TRUE]
            /\ UNCHANGED open_files
    /\ UNCHANGED outside_file_manager

\* FileManager::close_file
close_file(filename) ==
    /\ component = "FileManager"
    /\ n_file_calls < MaxFileCalls
    /\ n_file_calls' = n_file_calls + 1
    /\ IF filename \in open_files
       THEN /\ open_files' = open_files \ {filename}
            /\ current_file_count' = current_file_count - 1
       ELSE /\ current_file_count' = current_file_count - 1
            /\ UNCHANGED open_files
    /\ fm_last' = [op |-> "close_file", filename |-> filename]
    /\ UNCHANGED <<output_files, disk, outside_file_manager>>

\* FileManager::list_open_files: the three numbers it prints
list_open_files ==
    /\ component = "FileManager"
    /\ fm_last' = [op |-> "list_open_files",
                   current_file_count |-> current_file_count,
                   input_files |-> Cardinality(open_files),
                   output_files |-> Cardinality(output_files)]
    /\ UNCHANGED <<file_manager, n_file_calls, outside_file_manager>>

(***************************************************************************)
(* data/cpp/deadlock: main (main/test.cpp) and its two threads             *)
(* (src/resource_sharing.cpp).  pc names the line a thread is about to     *)
(* execute.  Constructing a std::unique_lock on a mutex waits until the    *)
(* mutex is free and then holds it; the locks of a function are released   *)
(* at its closing brace, the one taken last first.                         *)
(***************************************************************************)
\* main before line 5: no thread exists, both mutexes are free
deadlock_start ==
    /\ mainResource = "free"
    /\ pagingResource = "free"
    /\ pc = [main |-> "line 5", thread1 |-> "not started",
             thread2 |-> "not started"]

\* thread1_imageSectionCreation taking pagingResource whoever holds it
thread1_without_waiting ==
    /\ component = "deadlock"
    /\ \/ /\ pc.thread1 = "line 11"
          /\ mainResource = "free"
          /\ mainResource' = "thread1"
          /\ pc' = [pc EXCEPT !.thread1 = "line 13"]
          /\ UNCHANGED pagingResource
       \/ /\ pc.thread1 = "line 13"
          /\ pc' = [pc EXCEPT !.thread1 = "line 15"]
          /\ UNCHANGED <<mainResource, pagingResource>>
       \/ /\ pc.thread1 = "line 15"
          /\ pagingResource' = "thread1"
          /\ pc' = [pc EXCEPT !.thread1 = "line 16"]
          /\ UNCHANGED mainResource
       \/ /\ pc.thread1 = "line 16"
          /\ pagingResource' = "free"
          /\ pc' = [pc EXCEPT !.thread1 = "line 16, lockMain"]
          /\ UNCHANGED mainResource
       \/ /\ pc.thread1 = "line 16, lockMain"
          /\ mainResource' = "free"
          /\ pc' = [pc EXCEPT !.thread1 = "done"]
          /\ UNCHANGED pagingResource
    /\ UNCHANGED outside_deadlock

\* thread1_imageSectionCreation, a step of it
thread1_imageSectionCreation ==
    /\ component = "deadlock"
    /\ \/ /\ pc.thread1 = "line 11"
          /\ mainResource = "free"
          /\ mainResource' = "thread1"
          /\ pc' = [pc EXCEPT !.thread1 = "line 13"]
          /\ UNCHANGED pagingResource
       \/ /\ pc.thread1 = "line 13"
          /\ pc' = [pc EXCEPT !.thread1 = "line 15"]
          /\ UNCHANGED <<mainResource, pagingResource>>
       \/ /\ pc.thread1 = "line 15"
          /\ pagingResource = "free"
          /\ pagingResource' = "thread1"
          /\ pc' = [pc EXCEPT !.thread1 = "line 16"]
          /\ UNCHANGED mainResource
       \/ /\ pc.thread1 = "line 16"
          /\ pagingResource' = "free"
          /\ pc' = [pc EXCEPT !.thread1 = "line 16, lockMain"]
          /\ UNCHANGED mainResource
       \/ /\ pc.thread1 = "line 16, lockMain"
          /\ mainResource' = "free"
          /\ pc' = [pc EXCEPT !.thread1 = "done"]
          /\ UNCHANGED pagingResource
    /\ UNCHANGED outside_deadlock

\* thread2_mappedPageWriter, a step of it
thread2_mappedPageWriter ==
    /\ component = "deadlock"
    /\ \/ /\ pc.thread2 = "line 19"
          /\ pagingResource = "free"
          /\ pagingResource' = "thread2"
          /\ pc' = [pc EXCEPT !.thread2 = "line 21"]
          /\ UNCHANGED mainResource
       \/ /\ pc.thread2 = "line 21"
          /\ pc' = [pc EXCEPT !.thread2 = "line 23"]
          /\ UNCHANGED <<mainResource, pagingResource>>
       \/ /\ pc.thread2 = "line 23"
          /\ mainResource = "free"
          /\ mainResource' = "thread2"
          /\ pc' = [pc EXCEPT !.thread2 = "line 24"]
          /\ UNCHANGED pagingResource
       \/ /\ pc.thread2 = "line 24"
          /\ mainResource' = "free"
          /\ pc' = [pc EXCEPT !.thread2 = "line 24, lockPaging"]
          /\ UNCHANGED pagingResource
       \/ /\ pc.thread2 = "line 24, lockPaging"
          /\ pagingResource' = "free"
          /\ pc' = [pc EXCEPT !.thread2 = "done"]
          /\ UNCHANGED mainResource
    /\ UNCHANGED outside_deadlock

\* main of main/test.cpp, a step of it: it starts the two threads, waits
\* for the first to end, then for the second, and returns
deadlock_main ==
    /\ component = "deadlock"
    /\ \/ /\ pc.main = "line 5"
          /\ pc' = [pc EXCEPT !.main = "line 6", !.thread1 = "line 11"]
       \/ /\ pc.main = "line 6"
          /\ pc' = [pc EXCEPT !.main = "line 8", !.thread2 = "line 19"]
       \/ /\ pc.main = "line 8"
          /\ pc.thread1 = "done"
          /\ pc' = [pc EXCEPT !.main = "line 9"]
       \/ /\ pc.main = "line 9"
          /\ pc.thread2 = "done"
          /\ pc' = [pc EXCEPT !.main = "line 11"]
       \/ /\ pc.main = "line 11"
          /\ pc' = [pc EXCEPT !.main = "done"]
    /\ UNCHANGED <<mainResource, pagingResource, outside_deadlock>>

(***************************************************************************)
(* The clients: any sequence of calls on the object the behaviour          *)
(* exercises.                                                              *)
(***************************************************************************)
Components ==
    {"BinarySearchTree", "PriorityQueue", "BankAccount", "ConnectionPool",
     "FileManager", "deadlock"}

\* no call is under way
Idle ==
    /\ frames = <<>>
    /\ ret = [void |-> TRUE]

Init ==
    /\ component \in Components
    /\ tree_client \in (IF component = "BinarySearchTree"
                          THEN {"any", "limits"} ELSE {"any"})
    /\ Idle
    /\ BinarySearchTree_new
    /\ PriorityQueue_new
    /\ BankAccount_new
    /\ ConnectionPool_new
    /\ FileManager_new
    /\ deadlock_start

Next ==
    \/ \E value \in Keys \cup LimitKeys : insert(value)
    \/ \E value \in Keys \cup LimitKeys : remove(value)
    \/ \E value \in Keys \cup LimitKeys : call_search(value)
    \/ call_check_bst_invariant
    \/ \E value \in Values \cup Range(heap_values) \cup Range(long_values) :
           pq_insert(value)
    \/ pq_extract_top
    \/ call_check_heap_property
    \/ \E amount \in Amounts : deposit(amount)
    \/ \E amount \in Amounts : withdraw(amount)
    \/ freeze_account
    \/ unfreeze_account
    \/ call_check_invariants
    \/ get_connection
    \/ \E connection_id \in 1..(max_connections + 1) :
           release_connection(connection_id)
    \/ cleanup_disconnected
    \/ \E connection_id \in 1..max_connections : disconnect(connection_id)
    \/ status_report
    \/ \E filename \in FileNames : open_file_for_reading(filename)
    \/ \E filename \in FileNames, is_open \in BOOLEAN :
           create_output_file(filename, is_open)
    \/ \E filename \in FileNames : close_file(filename)
    \/ list_open_files
    \/ thread1_imageSectionCreation
    \/ thread2_mappedPageWriter
    \/ deadlock_main

Spec == Init /\ [][Next]_vars

(***************************************************************************)
(* The calls followed step by step.  A call pushes a frame on frames, the  *)
(* function at the top takes one step at a time: it returns (its frame is  *)
(* popped and ret holds what it returned) or it calls (a frame is pushed,  *)
(* and its own frame remembers the line at which it resumes).  The tree is *)
(* that of main: the values of line 318 inserted in order, then removes.   *)
(* last, pq_last and the histories read only by the properties of Spec are *)
(* left as they are.                                                       *)
(***************************************************************************)
\* main's values, line 318
values == <<50, 30, 70, 20, 40, 60, 80, 10>>

\* the keys removed: main's 30 and 100 (lines 327-328), and the root's
RunRemoveKeys == {30, 100, 50}
\* the keys searched for
RunSearchKeys == Range(values) \cup {100}
\* at most MaxRunRemoves calls of remove
MaxRunRemoves == 2

Top == frames[Len(frames)]
Caller == SubSeq(frames, 1, Len(frames) - 1)
Running(fn) == frames # <<>> /\ Top.fn = fn

\* the function at the top calls callee and will resume at line at
Call(at, callee) ==
    /\ frames' = Append([frames EXCEPT ![Len(frames)].at = at], callee)
    /\ UNCHANGED ret

\* the function at the top returns result to its caller
Return(result) ==
    /\ frames' = Caller
    /\ ret' = result

ReturnNode(node) == Return([node |-> node])
ReturnBool(b) == Return([bool |-> b])
ReturnInt(i) == Return([int |-> i])
ReturnVoid == Return([void |-> TRUE])

\* a public member function returns to the client
ReturnToClient ==
    /\ frames' = <<>>
    /\ ret' = [void |-> TRUE]

\* BinarySearchTree::insert up to the call of line 29
run_insert(value) ==
    /\ component = "BinarySearchTree"
    /\ tree_client = "main"
    /\ frames = <<>>
    /\ n_insert < Len(values)
    /\ value = values[n_insert + 1]
    /\ frames' = <<[fn |-> "insert", value |-> value],
                   [fn |-> "insert_recursive", node |-> root, value |-> value,
                    at |-> "entry"]>>
    /\ UNCHANGED <<tree_vars, ret, beside_tree>>

\* one step of BinarySearchTree::insert_recursive: from its entry to a
\* return or to the recursive call, or from the call's return (lines 85-96)
\* to its own
insert_recursive_step ==
    /\ Running("insert_recursive")
    /\ LET node == Top.node
           value == Top.value
           callee(child) == [fn |-> "insert_recursive", node |-> child,
                             value |-> value, at |-> "entry"]
       IN  IF Top.at = "entry"
           THEN IF node = nullptr THEN ReturnNode(BSTreeNode(value))
                ELSE IF value < node.data THEN Call("line 77", callee(node.left))
                ELSE IF value > node.data THEN Call("line 79", callee(node.right))
                ELSE ReturnNode(node)
           ELSE IF Top.at = "line 77"
           THEN ReturnNode(update_size_and_height(
                    [node EXCEPT !.left = ret.node]))
           ELSE ReturnNode(update_size_and_height(
                    [node EXCEPT !.right = ret.node]))
    /\ UNCHANGED <<tree_vars, beside_tree>>

\* BinarySearchTree::insert from the return of line 29
insert_return ==
    /\ Running("insert")
    /\ root' = ret.node
    /\ total_nodes' = total_nodes + 1
    /\ present' = present \cup {Top.value}
    /\ n_insert' = n_insert + 1
    /\ dup_insert' = (dup_insert \/ Top.value \in present)
    /\ ReturnToClient
    /\ UNCHANGED <<last, tree_client, n_remove, beside_tree>>

\* BinarySearchTree::remove up to the call of line 39
run_remove(value) ==
    /\ component = "BinarySearchTree"
    /\ tree_client = "main"
    /\ frames = <<>>
    /\ n_insert = Len(values)
    /\ n_remove < MaxRunRemoves
    /\ value \in RunRemoveKeys
    /\ frames' = <<[fn |-> "remove", value |-> value],
                   [fn |-> "remove_recursive", node |-> root, value |-> value,
                    at |-> "entry"]>>
    /\ UNCHANGED <<tree_vars, ret, beside_tree>>

\* one step of BinarySearchTree::remove_recursive
remove_recursive_step ==
    /\ Running("remove_recursive")
    /\ LET node == Top.node
           value == Top.value
           callee(child, key) == [fn |-> "remove_recursive", node |-> child,
                                  value |-> key, at |-> "entry"]
       IN  IF Top.at = "entry"
           THEN IF node = nullptr THEN ReturnNode(nullptr)
                ELSE IF value < node.data
                THEN Call("line 105", callee(node.left, value))
                ELSE IF value > node.data
                THEN Call("line 107", callee(node.right, value))
                ELSE IF node.left = nullptr THEN ReturnNode(node.right)
                ELSE IF node.right = nullptr THEN ReturnNode(node.left)
                ELSE Call("line 116", [fn |-> "find_min", node |-> node.right])
           ELSE IF Top.at = "line 105"
           THEN ReturnNode([node EXCEPT !.left = ret.node])
           ELSE IF Top.at = "line 116"
           THEN \* min_node is ret: line 117, then the call of line 118
                /\ frames' = Append([frames EXCEPT
                                        ![Len(frames)].at = "line 118",
                                        ![Len(frames)].node.data = ret.node.data],
                                    callee(node.right, ret.node.data))
                /\ UNCHANGED ret
           ELSE ReturnNode([node EXCEPT !.right = ret.node])
    /\ UNCHANGED <<tree_vars, beside_tree>>

\* find_min with the assignment of line 130 lost: the loop turns in place
find_min_step_in_place ==
    /\ Running("find_min")
    /\ IF Top.node.left # nullptr
       THEN UNCHANGED <<frames, ret>>
       ELSE ReturnNode(Top.node)
    /\ UNCHANGED <<tree_vars, beside_tree>>

\* one turn of the loop of BinarySearchTree::find_min, or its return
find_min_step ==
    /\ Running("find_min")
    /\ IF Top.node.left # nullptr
       THEN /\ frames' = [frames EXCEPT ![Len(frames)].node = Top.node.left]
            /\ UNCHANGED ret
       ELSE ReturnNode(Top.node)
    /\ UNCHANGED <<tree_vars, beside_tree>>

\* BinarySearchTree::remove from the return of line 39
remove_return ==
    /\ Running("remove")
    /\ root' = ret.node
    /\ total_nodes' = total_nodes - 1
    /\ present' = present \ {Top.value}
    /\ n_remove' = n_remove + 1
    /\ ReturnToClient
    /\ UNCHANGED <<last, tree_client, n_insert, dup_insert, beside_tree>>

\* BinarySearchTree::search up to the call of line 34
run_search(value) ==
    /\ component = "BinarySearchTree"
    /\ tree_client = "main"
    /\ frames = <<>>
    /\ value \in RunSearchKeys
    /\ frames' = <<[fn |-> "search", value |-> value],
                   [fn |-> "search_recursive", node |-> root, value |-> value,
                    at |-> "entry"]>>
    /\ UNCHANGED <<tree_vars, ret, beside_tree>>

\* one step of BinarySearchTree::search_recursive
search_recursive_step ==
    /\ Running("search_recursive")
    /\ LET node == Top.node
           value == Top.value
           callee(child) == [fn |-> "search_recursive", node |-> child,
                             value |-> value, at |-> "entry"]
       IN  IF Top.at = "entry"
           THEN IF node = nullptr THEN ReturnBool(FALSE)
                ELSE IF value = node.data THEN ReturnBool(TRUE)
                ELSE IF value < node.data THEN Call("line 138", callee(node.left))
                ELSE Call("line 139", callee(node.right))
           ELSE Return(ret)
    /\ UNCHANGED <<tree_vars, beside_tree>>

\* BinarySearchTree::search from the return of line 34
search_return ==
    /\ Running("search")
    /\ ReturnToClient
    /\ UNCHANGED <<tree_vars, beside_tree>>

\* BinarySearchTree::check_bst_invariant up to the call of line 48
run_check_bst_invariant ==
    /\ component = "BinarySearchTree"
    /\ tree_client = "main"
    /\ frames = <<>>
    /\ frames' = <<[fn |-> "check_bst_invariant", at |-> "line 48",
                    is_valid_bst |-> FALSE, sizes_correct |-> FALSE],
                   [fn |-> "check_bst_recursive", node |-> root,
                    min_val |-> INT_MIN, max_val |-> INT_MAX, at |-> "entry"]>>
    /\ UNCHANGED <<tree_vars, ret, beside_tree>>

\* one step of BinarySearchTree::check_bst_recursive; && does not evaluate
\* its right operand when the left one is false
check_bst_recursive_step ==
    /\ Running("check_bst_recursive")
    /\ LET node == Top.node
           callee(child, min_val, max_val) ==
               [fn |-> "check_bst_recursive", node |-> child,
                min_val |-> min_val, max_val |-> max_val, at |-> "entry"]
       IN  IF Top.at = "entry"
           THEN IF node = nullptr THEN ReturnBool(TRUE)
                ELSE IF node.data <= Top.min_val \/ node.data >= Top.max_val
                THEN ReturnBool(FALSE)
                ELSE Call("line 151", callee(node.left, Top.min_val, node.data))
           ELSE IF Top.at = "line 151"
           THEN IF ret.bool = FALSE THEN ReturnBool(FALSE)
                ELSE Call("line 152", callee(node.right, node.data, Top.max_val))
           ELSE Return(ret)
    /\ UNCHANGED <<tree_vars, beside_tree>>

\* one step of BinarySearchTree::check_subtree_sizes
check_subtree_sizes_step ==
    /\ Running("check_subtree_sizes")
    /\ LET node == Top.node
           callee(child) == [fn |-> "check_subtree_sizes", node |-> child,
                             at |-> "entry"]
           left_size == IF node.left # nullptr THEN node.left.subtree_size ELSE 0
           right_size == IF node.right # nullptr THEN node.right.subtree_size ELSE 0
           expected_size == 1 + left_size + right_size
       IN  IF Top.at = "entry"
           THEN IF node = nullptr THEN ReturnBool(TRUE)
                ELSE IF node.subtree_size # expected_size THEN ReturnBool(FALSE)
                ELSE Call("line 169 left", callee(node.left))
           ELSE IF Top.at = "line 169 left"
           THEN IF ret.bool = FALSE THEN ReturnBool(FALSE)
                ELSE Call("line 169 right", callee(node.right))
           ELSE Return(ret)
    /\ UNCHANGED <<tree_vars, beside_tree>>

\* one step of BinarySearchTree::count_nodes, the left operand of line 174
\* taken first
count_nodes_step ==
    /\ Running("count_nodes")
    /\ LET node == Top.node
           callee(child) == [fn |-> "count_nodes", node |-> child, sum |-> 0,
                             at |-> "entry"]
       IN  IF Top.at = "entry"
           THEN IF node = nullptr THEN ReturnInt(0)
                ELSE Call("line 174 left", callee(node.left))
           ELSE IF Top.at = "line 174 left"
           THEN /\ frames' = Append([frames EXCEPT
                                        ![Len(frames)].at = "line 174 right",
                                        ![Len(frames)].sum = 1 + ret.int],
                                    callee(node.right))
                /\ UNCHANGED ret
           ELSE ReturnInt(Top.sum + ret.int)
    /\ UNCHANGED <<tree_vars, beside_tree>>

\* BinarySearchTree::check_bst_invariant from the return of line 48: lines
\* 49 and 50 call in turn, line 58 returns
check_bst_invariant_step ==
    /\ Running("check_bst_invariant")
    /\ IF Top.at = "line 48"
       THEN /\ frames' = Append([frames EXCEPT ![Len(frames)].at = "line 49",
                                               ![Len(frames)].is_valid_bst = ret.bool],
                                [fn |-> "check_subtree_sizes", node |-> root,
                                 at |-> "entry"])
            /\ UNCHANGED ret
       ELSE IF Top.at = "line 49"
       THEN /\ frames' = Append([frames EXCEPT ![Len(frames)].at = "line 50",
                                               ![Len(frames)].sizes_correct = ret.bool],
                                [fn |-> "count_nodes", node |-> root, sum |-> 0,
                                 at |-> "entry"])
            /\ UNCHANGED ret
       ELSE ReturnToClient
    /\ UNCHANGED <<tree_vars, beside_tree>>

\* PriorityQueue::insert up to the call of line 206
run_pq_insert(value) ==
    /\ component = "PriorityQueue"
    /\ frames = <<>>
    /\ \/ pq_client = "any" /\ pq_n_insert < MaxPqInserts /\ value \in Values
       \/ /\ pq_client \in {"main", "long"}
          /\ pq_client = "long" => pq_phase = "inserting"
          /\ pq_n_insert < Len(Feed(pq_client))
          /\ value = Feed(pq_client)[pq_n_insert + 1]
    /\ heap' = Append(heap, value)
    /\ frames' = <<[fn |-> "PriorityQueue::insert", value |-> value],
                   [fn |-> "heap_up", index |-> Len(heap), at |-> "entry"]>>
    /\ pq_n_insert' = pq_n_insert + 1
    /\ pq_phase' = IF pq_phase = "inserting" THEN "inserting" ELSE "mixed"
    /\ extracted' = <<>>
    /\ outstanding' = [outstanding EXCEPT ![value] = @ + 1]
    /\ UNCHANGED <<is_max_heap, pq_last, pq_client, ret, beside_pq>>

\* one step of PriorityQueue::heap_up
heap_up_step ==
    /\ Running("heap_up")
    /\ LET index == Top.index
           parent == (index - 1) \div 2
           should_swap == IF is_max_heap THEN At(heap, index) > At(heap, parent)
                                         ELSE At(heap, index) < At(heap, parent)
       IN  IF Top.at = "entry" /\ index # 0 /\ should_swap
           THEN /\ heap' = swap(heap, index, parent)
                /\ Call("line 283", [fn |-> "heap_up", index |-> parent,
                                     at |-> "entry"])
           ELSE /\ ReturnVoid
                /\ UNCHANGED heap
    /\ UNCHANGED <<is_max_heap, pq_last, pq_history, beside_pq>>

\* PriorityQueue::insert from the return of line 206
pq_insert_return ==
    /\ Running("PriorityQueue::insert")
    /\ ReturnToClient
    /\ UNCHANGED <<pq_vars, beside_pq>>

\* PriorityQueue::extract_top up to the call of line 223, or to its return
\* when there is no call; on an empty heap it throws at once
run_pq_extract_top ==
    /\ component = "PriorityQueue"
    /\ frames = <<>>
    /\ IF heap = <<>>
       THEN UNCHANGED <<heap, frames, extracted, outstanding>>
       ELSE LET moved == [heap EXCEPT ![1] = heap[Len(heap)]]
                popped == SubSeq(moved, 1, Len(heap) - 1)
                self == [fn |-> "extract_top", top |-> At(heap, 0)]
            IN  /\ heap' = popped
                /\ frames' = IF popped # <<>> /\ Len(popped) > 3
                             THEN <<self, [fn |-> "heap_down", index |-> 0,
                                           at |-> "entry"]>>
                             ELSE <<self>>
                /\ extracted' = Append(extracted, At(heap, 0))
                /\ outstanding' = [outstanding EXCEPT ![At(heap, 0)] = @ - 1]
    /\ pq_phase' = IF pq_phase = "inserting" THEN "extracting" ELSE pq_phase
    /\ UNCHANGED <<is_max_heap, pq_last, pq_client, pq_n_insert, ret, beside_pq>>

\* one step of PriorityQueue::heap_down
heap_down_step ==
    /\ Running("heap_down")
    /\ LET index == Top.index
           left_child == 2 * index + 1
           right_child == 2 * index + 2
           target1 ==
               IF left_child < Len(heap)
                  /\ (IF is_max_heap THEN At(heap, left_child) > At(heap, index)
                                     ELSE At(heap, left_child) < At(heap, index))
               THEN left_child ELSE index
           target ==
               IF right_child < Len(heap)
                  /\ (IF is_max_heap THEN At(heap, right_child) > At(heap, target1)
                                     ELSE At(heap, right_child) < At(heap, target1))
               THEN right_child ELSE target1
       IN  IF Top.at = "entry" /\ target # index
           THEN /\ heap' = swap(heap, index, target)
                /\ Call("line 304", [fn |-> "heap_down", index |-> target,
                                     at |-> "entry"])
           ELSE /\ ReturnVoid
                /\ UNCHANGED heap
    /\ UNCHANGED <<is_max_heap, pq_last, pq_history, beside_pq>>

\* PriorityQueue::extract_top from line 227
extract_top_return ==
    /\ Running("extract_top")
    /\ ReturnToClient
    /\ UNCHANGED <<pq_vars, beside_pq>>

\* PriorityQueue::check_heap_property up to its loop
run_check_heap_property ==
    /\ component = "PriorityQueue"
    /\ frames = <<>>
    /\ frames' = <<[fn |-> "check_heap_property", i |-> 0]>>
    /\ UNCHANGED <<pq_vars, ret, beside_pq>>

\* one turn of the loop of PriorityQueue::check_heap_property, or its return
check_heap_property_step ==
    /\ Running("check_heap_property")
    /\ LET i == Top.i
           left_child == 2 * i + 1
           right_child == 2 * i + 2
           left_valid ==
               left_child < Len(heap)
                   => IF is_max_heap THEN At(heap, i) >= At(heap, left_child)
                                     ELSE At(heap, i) <= At(heap, left_child)
           right_valid ==
               right_child < Len(heap)
                   => IF is_max_heap THEN At(heap, i) >= At(heap, right_child)
                                     ELSE At(heap, i) <= At(heap, right_child)
       IN  IF i < Len(heap) /\ left_valid /\ right_valid
           THEN /\ frames' = [frames EXCEPT ![Len(frames)].i = i + 1]
                /\ UNCHANGED ret
           ELSE ReturnToClient
    /\ UNCHANGED <<pq_vars, beside_pq>>

\* the steps of a call under way; the thread of control keeps taking them
RunStep ==
    \/ insert_recursive_step
    \/ insert_return
    \/ remove_recursive_step
    \/ find_min_step
    \/ remove_return
    \/ search_recursive_step
    \/ search_return
    \/ check_bst_recursive_step
    \/ check_subtree_sizes_step
    \/ count_nodes_step
    \/ check_bst_invariant_step
    \/ heap_up_step
    \/ pq_insert_return
    \/ heap_down_step
    \/ extract_top_return
    \/ check_heap_property_step

RunComponents == {"BinarySearchTree", "PriorityQueue"}

RunInit ==
    /\ component \in RunComponents
    /\ tree_client = "main"
    /\ Idle
    /\ BinarySearchTree_new
    /\ PriorityQueue_new
    /\ BankAccount_new
    /\ ConnectionPool_new
    /\ FileManager_new
    /\ deadlock_start

RunNext ==
    \/ \E value \in Range(values) : run_insert(value)
    \/ \E value \in RunRemoveKeys : run_remove(value)
    \/ \E value \in RunSearchKeys : run_search(value)
    \/ run_check_bst_invariant
    \/ \E value \in PqValues : run_pq_insert(value)
    \/ run_pq_extract_top
    \/ run_check_heap_property
    \/ RunStep

RunSpec == RunInit /\ [][RunNext]_vars /\ WF_vars(RunStep)

(***************************************************************************)
(* Vocabulary of the properties: what a step was, and the mathematical     *)
(* reading of a tree (its key set, its ordering, its heights).             *)
(***************************************************************************)
RECURSIVE KeysOf(_)
RECURSIVE Ordered(_)
RECURSIVE HeightsCached(_)

KeysOf(node) ==
    IF node = nullptr THEN {}
    ELSE {node.data} \cup KeysOf(node.left) \cup KeysOf(node.right)

Ordered(node) ==
    IF node = nullptr THEN TRUE
    ELSE /\ \A k \in KeysOf(node.left) : k < node.data
         /\ \A k \in KeysOf(node.right) : k > node.data
         /\ Ordered(node.left)
         /\ Ordered(node.right)

CachedHeight(node) == IF node = nullptr THEN 0 ELSE node.height

Max(a, b) == IF a >= b THEN a ELSE b

HeightsCached(node) ==
    IF node = nullptr THEN TRUE
    ELSE /\ node.height = 1 + Max(CachedHeight(node.left), CachedHeight(node.right))
         /\ HeightsCached(node.left)
         /\ HeightsCached(node.right)

\* the step is a call of insert, of remove; its argument is last'.value
InsertStep == n_insert' = n_insert + 1
RemoveStep == n_remove' = n_remove + 1
\* so far the tree has seen inserts only; inserts of pairwise distinct keys only
InsertsOnly == n_remove = 0
DistinctInsertsOnly == n_remove = 0 /\ ~dup_insert

(***************************************************************************)
(* C1: from the empty tree, after any sequence of inserts of pairwise      *)
(* distinct keys, check_bst_invariant returns true (ordering, cached       *)
(* subtree sizes and node count all pass).                                 *)
(* Violated: insert(1); insert(2) leaves the root with subtree_size 3.     *)
(***************************************************************************)
C1_DistinctInsertsAuditPasses ==
    DistinctInsertsOnly => check_bst_invariant

(***************************************************************************)
(* C2: in every reachable state total_nodes equals the number of nodes     *)
(* reachable from the root.                                                *)
(* Violated: insert counts a duplicate, remove counts an absent key.       *)
(***************************************************************************)
C2_NodeCountIsReachableCount ==
    total_nodes = count_nodes(root)

(***************************************************************************)
(* C3: insert of a key that is already in the tree changes neither         *)
(* total_nodes, nor the tree (keys, children, sizes, heights), nor the     *)
(* result of search for any key.                                           *)
(* Violated: insert(1); insert(1) takes total_nodes from 1 to 2.           *)
(***************************************************************************)
C3_DuplicateInsertIsNoOp ==
    [][(InsertStep /\ search(last'.value))
        => /\ total_nodes' = total_nodes
           /\ root' = root
           /\ \A k \in Keys : search_recursive(root', k) = search(k)]_vars

(***************************************************************************)
(* C4: after inserts only, remove of a key that is not in the tree leaves  *)
(* total_nodes and the tree unchanged, and the audit passes afterwards if  *)
(* it passed before.                                                       *)
(* Violated: remove(1) on the empty tree takes total_nodes from 0 to -1.   *)
(***************************************************************************)
C4_RemoveAbsentChangesNothing ==
    [][(InsertsOnly /\ RemoveStep /\ ~search(last'.value))
        => /\ total_nodes' = total_nodes
           /\ root' = root
           /\ (check_bst_invariant => check_bst_invariant')]_vars

(***************************************************************************)
(* C5: remove takes one off total_nodes if and only if a node holding the  *)
(* key was found and removed, and leaves total_nodes alone otherwise.      *)
(* Violated: remove of an absent key still takes one off.                  *)
(***************************************************************************)
C5_RemoveDecrementsIffRemoved ==
    [][RemoveStep
        => LET removed == /\ search(last'.value)
                          /\ count_nodes(root') = count_nodes(root) - 1
           IN  total_nodes' = IF removed THEN total_nodes - 1 ELSE total_nodes]_vars

(***************************************************************************)
(* C6: after inserts only, remove of a key that is in the tree leaves a    *)
(* tree on which the audit's ordering and subtree-size checks pass.        *)
(* Violated: insert(1); insert(2); remove(2) leaves the root, now a leaf,  *)
(* with subtree_size 3.                                                    *)
(***************************************************************************)
C6_RemovePresentAuditPasses ==
    [][(InsertsOnly /\ RemoveStep /\ search(last'.value))
        => (is_valid_bst' /\ sizes_correct')]_vars

(***************************************************************************)
(* C7: the tree is the set of the keys inserted and not removed since:     *)
(* search(k) is true exactly for those keys, a search call returns that    *)
(* answer, search(key) is false right after remove(key), and a search call *)
(* changes neither the tree nor total_nodes.                               *)
(***************************************************************************)
C7_SearchIsSetMembership ==
    /\ [](\A k \in Keys : search(k) = (k \in present))
    /\ [](last.op = "search" => last.result = (last.value \in present))
    /\ [](last.op = "remove" => ~search(last.value))
    /\ [][last'.op = "search" => UNCHANGED tree]_vars

\* all MaxKey keys were inserted, one was removed, and a search for that
\* one has just returned false
C7_Witness ==
    /\ last.op = "search"
    /\ last.value \notin present
    /\ last.result = FALSE
    /\ n_insert = MaxKey /\ ~dup_insert
    /\ n_remove = 1
    /\ Cardinality(present) = MaxKey - 1

(***************************************************************************)
(* C8: in every reachable state the tree is ordered (every key of a left   *)
(* subtree is strictly less than the node's key, every key of a right      *)
(* subtree strictly greater) and its keys are pairwise distinct.           *)
(***************************************************************************)
C8_OrderedAndDistinct ==
    /\ Ordered(root)
    /\ Cardinality(KeysOf(root)) = count_nodes(root)

\* a remove has just left a root with two children, after duplicate-free
\* inserts of every key
C8_Witness ==
    /\ last.op = "remove"
    /\ n_insert = MaxKey /\ ~dup_insert
    /\ n_remove = 1
    /\ count_nodes(root) = MaxKey - 1
    /\ root.left # nullptr
    /\ root.right # nullptr

(***************************************************************************)
(* C9: in every reachable state every node's cached height is              *)
(* 1 + max(height(left), height(right)), 0 for an absent child.            *)
(* Violated: insert(1); insert(2) leaves the root with height 1.           *)
(***************************************************************************)
C9_HeightsAreOnePlusMax ==
    HeightsCached(root)

(***************************************************************************)
(* C10: from the empty tree, after any sequence of inserts of pairwise     *)
(* distinct keys, total_nodes is the number of keys inserted.              *)
(***************************************************************************)
C10_DistinctInsertsCounted ==
    DistinctInsertsOnly => total_nodes = Cardinality(present)

\* every key has been inserted once and nothing else was done
C10_Witness ==
    /\ last.op = "insert"
    /\ DistinctInsertsOnly
    /\ n_insert = MaxKey
    /\ Cardinality(present) = MaxKey

(***************************************************************************)
(* Vocabulary of the heap properties.                                      *)
(***************************************************************************)
NonIncreasing(q) == \A i \in 1..(Len(q) - 1) : q[i] >= q[i + 1]
NonDecreasing(q) == \A i \in 1..(Len(q) - 1) : q[i] <= q[i + 1]
IsPrefix(q, r) == Len(q) <= Len(r) /\ q = SubSeq(r, 1, Len(q))

(***************************************************************************)
(* C11: on a max-first and on a min-first heap, after every insert of a    *)
(* sequence of inserts (equal values included) check_heap_property         *)
(* returns true.  Checked for up to MaxPqInserts free inserts and for the  *)
(* eight inserts of main.                                                  *)
(***************************************************************************)
C11_InsertKeepsHeapOrder ==
    pq_phase = "inserting" => check_heap_property

\* the last of MaxPqInserts inserts on a min-first heap was sifted from the
\* tail up to the root
C11_Witness ==
    /\ pq_client = "any"
    /\ ~is_max_heap
    /\ pq_phase = "inserting"
    /\ pq_n_insert = MaxPqInserts
    /\ pq_last.op = "insert"
    /\ At(heap, 0) = pq_last.value
    /\ At(heap, 1) > pq_last.value
    /\ At(heap, Len(heap) - 1) > pq_last.value

(***************************************************************************)
(* C12: an extract_top on an ordered heap that leaves the heap non-empty   *)
(* leaves it ordered, whatever its size.                                   *)
(* Violated: extract_top on the max-first heap 3,2,1 leaves 1,2: line 222  *)
(* runs heap_down only when more than three elements are left.             *)
(***************************************************************************)
C12_ExtractKeepsHeapOrder ==
    [][(pq_last'.op = "extract_top" /\ check_heap_property /\ heap' # <<>>)
        => check_heap_property']_vars

(***************************************************************************)
(* C13: after any sequence of inserts, the values that successive          *)
(* extract_top calls return are non-increasing on a max-first heap and     *)
(* non-decreasing on a min-first heap.                                     *)
(* Violated: the max-first heap 3,2,1 is extracted as 3, 1, 2.             *)
(***************************************************************************)
C13_ExtractionIsSorted ==
    pq_phase # "mixed"
        => IF is_max_heap THEN NonIncreasing(extracted) ELSE NonDecreasing(extracted)

(***************************************************************************)
(* C14: 5,10,3,8,15,2,12,7 inserted in that order into an empty max-first  *)
(* heap leave a heap on which check_heap_property returns true, and eight  *)
(* extract_top calls then return 15,12,10,8,7,5,3,2 in that order.         *)
(***************************************************************************)
C14_MainScenario ==
    (pq_client = "main" /\ pq_n_insert = Len(heap_values) /\ pq_phase # "mixed")
        => /\ pq_phase = "inserting" => check_heap_property
           /\ IsPrefix(extracted, <<15, 12, 10, 8, 7, 5, 3, 2>>)

(***************************************************************************)
(* C15: extract_top on an empty heap throws, returns no value, and leaves  *)
(* the heap as a freshly constructed one of the same ordering mode (empty  *)
(* vector, is_max_heap unchanged), so the calls that follow behave as on a *)
(* fresh heap.                                                             *)
(***************************************************************************)
C15_ExtractFromEmptyThrows ==
    [][(pq_last'.op = "extract_top" /\ heap = <<>>)
        => /\ pq_last'.threw
           /\ heap' = <<>>
           /\ is_max_heap' = is_max_heap]_vars

\* a heap that was filled and emptied again has just refused an extract_top
C15_Witness ==
    /\ pq_last.op = "extract_top"
    /\ pq_last.threw
    /\ pq_n_insert >= 2
    /\ Len(extracted) >= 2
    /\ heap = <<>>

(***************************************************************************)
(* C16: a check_bst_invariant call changes neither root (no node's key,    *)
(* children, subtree_size or height) nor total_nodes, and a                *)
(* check_heap_property call changes neither the vector nor is_max_heap,    *)
(* in every reachable state, the corrupted ones included.                  *)
(***************************************************************************)
C16_AuditsChangeNothing ==
    [][/\ last'.op = "check_bst_invariant" => UNCHANGED tree
       /\ pq_last'.op = "check_heap_property" => UNCHANGED pq]_vars

\* the tree audit has just failed on a tree whose count is off
C16_Witness ==
    /\ last.op = "check_bst_invariant"
    /\ last.result = FALSE
    /\ total_nodes # count_nodes(root)
    /\ root # nullptr

(***************************************************************************)
(* C17: remove tells its caller whether it removed a node: what it returns *)
(* for a key that is in the tree differs from what it returns for a key    *)
(* that is not.                                                            *)
(* Violated: remove is void, so after insert(1) the caller gets the same   *)
(* from remove(1) and from remove(2).                                      *)
(***************************************************************************)
C17_RemoveReportsNotFound ==
    \A k1, k2 \in Keys :
        (search(k1) /\ ~search(k2)) => remove_returns(k1) # remove_returns(k2)

(***************************************************************************)
(* C18: insert tells its caller whether it added a node: what it returns   *)
(* for a key that is not in the tree differs from what it returns for a    *)
(* key that already is.                                                    *)
(* Violated: insert is void, so after insert(1) the caller gets the same   *)
(* from insert(1) and from insert(2).                                      *)
(***************************************************************************)
C18_InsertReportsDuplicate ==
    \A k1, k2 \in Keys :
        (search(k1) /\ ~search(k2)) => insert_returns(k1) # insert_returns(k2)

(***************************************************************************)
(* C19: in every reachable state of a BankAccount transaction_count is the *)
(* number of entries of transaction_history.                               *)
(* Violated: an accepted deposit appends to the history and leaves the     *)
(* count alone.                                                            *)
(***************************************************************************)
C19_CountIsHistorySize ==
    transaction_count = Len(transaction_history)

(***************************************************************************)
(* C20: the balance of an account created with a non-negative balance is   *)
(* never negative, and a withdraw of more than the balance returns false   *)
(* and changes neither balance, nor transaction_history, nor               *)
(* transaction_count.                                                      *)
(* Violated: withdraw(1) on a new account with balance 0 returns true and  *)
(* leaves the balance at -1.                                               *)
(***************************************************************************)
C20_BalanceNeverNegative ==
    /\ [](balance >= 0)
    /\ [][(bank_last'.op = "withdraw" /\ bank_last'.amount > balance)
            => /\ bank_last'.returned = FALSE
               /\ UNCHANGED <<balance, transaction_history, transaction_count>>]_vars

(***************************************************************************)
(* C21: while the account is frozen (between freeze_account and the next   *)
(* unfreeze_account) every deposit and every withdraw returns false and    *)
(* leaves balance, transaction_history and transaction_count unchanged;    *)
(* freeze_account freezes, unfreeze_account unfreezes, and on an account   *)
(* that is not frozen a deposit or withdraw of a positive amount is        *)
(* accepted again.                                                         *)
(***************************************************************************)
TransactionStep == bank_last'.op \in {"deposit", "withdraw"}

C21_FrozenRefusesTransactions ==
    /\ [][(is_frozen /\ TransactionStep)
            => /\ bank_last'.returned = FALSE
               /\ UNCHANGED <<balance, transaction_history, transaction_count>>]_vars
    /\ [][bank_last'.op = "freeze_account" => is_frozen']_vars
    /\ [][bank_last'.op = "unfreeze_account" => ~is_frozen']_vars
    /\ [][(~is_frozen /\ TransactionStep /\ bank_last'.amount > 0)
            => /\ bank_last'.returned = TRUE
               /\ Len(transaction_history') = Len(transaction_history) + 1]_vars

\* a deposit of a positive amount has just been refused by a frozen account
\* that had accepted a transaction before
C21_Witness ==
    /\ is_frozen
    /\ bank_last.op = "deposit"
    /\ bank_last.amount > 0
    /\ bank_last.returned = FALSE
    /\ Len(transaction_history) > 1

(***************************************************************************)
(* Vocabulary of C22: the subtree rooted at the node holding a key, and a  *)
(* tree with that subtree replaced by another, both found by descent.      *)
(***************************************************************************)
RECURSIVE SubtreeAt(_, _)
RECURSIVE Graft(_, _, _)

SubtreeAt(node, key) ==
    IF node = nullptr THEN nullptr
    ELSE IF key = node.data THEN node
    ELSE IF key < node.data THEN SubtreeAt(node.left, key)
    ELSE SubtreeAt(node.right, key)

Graft(node, key, replacement) ==
    IF node = nullptr THEN nullptr
    ELSE IF key = node.data THEN replacement
    ELSE IF key < node.data
    THEN [node EXCEPT !.left = Graft(node.left, key, replacement)]
    ELSE [node EXCEPT !.right = Graft(node.right, key, replacement)]

MinOf(S) == CHOOSE m \in S : \A k \in S : m <= k

(***************************************************************************)
(* C22: remove(key) is the standard deletion.  The key set afterwards is   *)
(* the previous one minus key, no key appears twice and the ordering is    *)
(* kept.  The node holding key, if it has at most one child, is replaced   *)
(* by that child (or by nothing); if it has two, it takes the key of its   *)
(* in-order successor, the smallest key of its right subtree, and exactly  *)
(* the successor's node is deleted from the right subtree (replaced by the *)
(* successor's right child); the rest of the tree is untouched.            *)
(***************************************************************************)
C22_RemoveIsStandardDeletion ==
    [][RemoveStep =>
        LET key == last'.value
            found == SubtreeAt(root, key)
            successor == MinOf(KeysOf(found.right))
        IN  /\ KeysOf(root') = KeysOf(root) \ {key}
            /\ count_nodes(root') = Cardinality(KeysOf(root'))
            /\ Ordered(root')
            /\ found = nullptr => root' = root
            /\ (found # nullptr /\ found.left = nullptr)
                   => root' = Graft(root, key, found.right)
            /\ (found # nullptr /\ found.left # nullptr /\ found.right = nullptr)
                   => root' = Graft(root, key, found.left)
            /\ (found # nullptr /\ found.left # nullptr /\ found.right # nullptr)
                   => root' = Graft(root, key,
                          [found EXCEPT
                              !.data = successor,
                              !.right = Graft(found.right, successor,
                                            SubtreeAt(found.right, successor).right)])
      ]_vars

\* the one remove so far took 2 out of the tree 2(1, 4(3, -)): the root now
\* holds the successor 3, and its right child 4 is a leaf whose cached size
\* still counts the child it had
C22_Witness ==
    /\ last.op = "remove"
    /\ last.value = 2
    /\ n_remove = 1
    /\ root # nullptr
    /\ root.data = 3
    /\ root.left # nullptr
    /\ root.left.data = 1
    /\ root.right # nullptr
    /\ root.right.data = 4
    /\ root.right.left = nullptr
    /\ root.right.right = nullptr
    /\ root.right.subtree_size = 3

(***************************************************************************)
(* C23: the ordering check of the audit passes for exactly the trees that  *)
(* satisfy the ordering invariant, whatever their keys, the smallest and   *)
(* the largest int included.                                               *)
(* Violated: insert(INT_MIN) into the empty tree gives a one-node tree,    *)
(* which is ordered; check_bst_recursive(root, INT_MIN, INT_MAX) finds     *)
(* data <= min_val and answers false.                                      *)
(***************************************************************************)
C23_OrderingCheckIsOrdering ==
    is_valid_bst <=> Ordered(root)

(***************************************************************************)
(* Vocabulary of C24: the nodes reachable from a node, and a cached size.  *)
(***************************************************************************)
RECURSIVE NodesOf(_)

NodesOf(node) ==
    IF node = nullptr THEN {}
    ELSE {node} \cup NodesOf(node.left) \cup NodesOf(node.right)

CachedSize(node) == IF node = nullptr THEN 0 ELSE node.subtree_size

SizesAgree ==
    \A n \in NodesOf(root) :
        n.subtree_size = 1 + CachedSize(n.left) + CachedSize(n.right)

CountAgrees == total_nodes = Cardinality(NodesOf(root))

(***************************************************************************)
(* C24: the size check of the audit fails exactly when some reachable node *)
(* has a cached subtree_size other than 1 plus the cached sizes of its     *)
(* children; the count check fails exactly when total_nodes is not the     *)
(* number of reachable nodes; check_bst_invariant returns the conjunction  *)
(* of the ordering check, the size check and the count check.              *)
(***************************************************************************)
C24_AuditDetectsExactly ==
    /\ sizes_correct <=> SizesAgree
    /\ count_correct <=> CountAgrees
    /\ last.op = "check_bst_invariant"
           => last.result = (is_valid_bst /\ SizesAgree /\ CountAgrees)

\* an audit has just failed on the count alone, the ordering and every
\* cached size being right, and on a tree of inserts and removes
C24_Witness ==
    /\ last.op = "check_bst_invariant"
    /\ last.result = FALSE
    /\ is_valid_bst
    /\ SizesAgree
    /\ ~CountAgrees
    /\ root # nullptr
    /\ n_remove > 0

(***************************************************************************)
(* Vocabulary of C25: the heap-order property of the stored sequence.      *)
(***************************************************************************)
InOrder(parent, child) ==
    IF is_max_heap THEN parent >= child ELSE parent <= child

HeapOrdered ==
    \A i \in 0..(Len(heap) - 1) :
        \A c \in {2 * i + 1, 2 * i + 2} :
            c < Len(heap) => InOrder(At(heap, i), At(heap, c))

(***************************************************************************)
(* C25: check_heap_property returns true exactly when every element is     *)
(* >= (max heap) or <= (min heap) each of its children 2i+1 and 2i+2 that  *)
(* lie within the sequence.  It returns true on the empty and on the       *)
(* one-element heap, and an equal parent and child are no violation.       *)
(***************************************************************************)
C25_HeapAuditIsHeapOrder ==
    /\ check_heap_property <=> HeapOrdered
    /\ Len(heap) <= 1 => check_heap_property
    /\ pq_last.op = "check_heap_property" => pq_last.result = HeapOrdered

\* the audit has just passed a heap whose root equals its left child and
\* is strictly in order with its right child
C25_Witness ==
    /\ pq_last.op = "check_heap_property"
    /\ pq_last.result = TRUE
    /\ Len(heap) >= 3
    /\ At(heap, 0) = At(heap, 1)
    /\ At(heap, 0) # At(heap, 2)

(***************************************************************************)
(* Vocabulary of C26: the number of occurrences of a value in a sequence.  *)
(***************************************************************************)
Count(q, v) == Cardinality({i \in DOMAIN q : q[i] = v})

PqInsertStep == pq_n_insert' = pq_n_insert + 1
PqExtractStep == pq_last'.op = "extract_top" /\ heap # <<>>

(***************************************************************************)
(* C26: the heap neither loses, nor invents, nor duplicates a value.  An   *)
(* insert makes the sequence one longer and adds one occurrence of its     *)
(* argument and nothing else; extract_top on a non-empty heap returns the  *)
(* element at index 0, makes the sequence one shorter and takes away one   *)
(* occurrence of the value it returns and nothing else; at all times the   *)
(* stored values are, with their multiplicities, the values inserted minus *)
(* the values extract_top returned.                                        *)
(***************************************************************************)
C26_HeapKeepsItsValues ==
    /\ [](\A v \in PqValues : Count(heap, v) = outstanding[v])
    /\ [](\A i \in DOMAIN heap : heap[i] \in PqValues)
    /\ [][PqInsertStep =>
            /\ Len(heap') = Len(heap) + 1
            /\ \A v \in PqValues :
                   Count(heap', v) =
                       Count(heap, v) + (IF v = pq_last'.value THEN 1 ELSE 0)]_vars
    /\ [][PqExtractStep =>
            /\ ~pq_last'.threw
            /\ pq_last'.top = At(heap, 0)
            /\ Len(heap') = Len(heap) - 1
            /\ \A v \in PqValues :
                   Count(heap', v) =
                       Count(heap, v) - (IF v = pq_last'.top THEN 1 ELSE 0)]_vars

\* extract_top has just returned one of two equal stored values, from a
\* heap large enough for the sift down to have run
C26_Witness ==
    /\ pq_last.op = "extract_top"
    /\ ~pq_last.threw
    /\ Len(heap) > 3
    /\ Count(heap, pq_last.top) = 1
    /\ heap # <<>>

(***************************************************************************)
(* Vocabulary of C27: a function returns, a function calls, and what the   *)
(* frames of the tree's recursive functions hold.                          *)
(***************************************************************************)
Returns == Len(frames') < Len(frames)
Calls == Len(frames') > Len(frames)

TreeFrame(k) == frames[k].fn \in {"insert_recursive", "remove_recursive",
                                  "find_min", "search_recursive",
                                  "check_bst_recursive", "check_subtree_sizes",
                                  "count_nodes"}

(***************************************************************************)
(* C27: every call of a container operation runs to completion.  Under     *)
(* RunSpec, where the thread of control keeps taking steps, a call under   *)
(* way (insert, remove with its successor search and its recursive         *)
(* deletion, search, both audits, extract_top) always returns to the       *)
(* client.  Each recursive call on the tree is on a subtree with fewer     *)
(* nodes than its caller's.  heap_up goes on from the parent's index after *)
(* a swap and stops at the root or at the first parent it is in order      *)
(* with; heap_down goes on from a child's index after a swap and stops at  *)
(* an index none of whose children violates the order.                     *)
(***************************************************************************)
C27_CallsRunToCompletion ==
    /\ (frames # <<>>) ~> (frames = <<>>)
    /\ [](\A k \in 2..(Len(frames) - 1) :
            (TreeFrame(k) /\ TreeFrame(k + 1))
                => count_nodes(frames[k + 1].node) < count_nodes(frames[k].node))
    /\ [][(Running("heap_up") /\ Top.at = "entry" /\ Returns)
            => \/ Top.index = 0
               \/ InOrder(At(heap, (Top.index - 1) \div 2), At(heap, Top.index))]_vars
    /\ [][(Running("heap_up") /\ Calls)
            => /\ Top.index > 0
               /\ ~InOrder(At(heap, (Top.index - 1) \div 2), At(heap, Top.index))
               /\ frames'[Len(frames')].index = (Top.index - 1) \div 2]_vars
    /\ [][(Running("heap_down") /\ Top.at = "entry" /\ Returns)
            => \A c \in {2 * Top.index + 1, 2 * Top.index + 2} :
                   c < Len(heap) => InOrder(At(heap, Top.index), At(heap, c))]_vars
    /\ [][(Running("heap_down") /\ Calls)
            => LET c == frames'[Len(frames')].index
               IN  /\ c \in {2 * Top.index + 1, 2 * Top.index + 2}
                   /\ c < Len(heap)
                   /\ ~InOrder(At(heap, Top.index), At(heap, c))]_vars

\* remove(50) on main's tree: the node with two children has taken the key
\* of its successor 60, found by a turn of find_min's loop, and the
\* recursive deletion of 60 from its right subtree has returned to it
C27_Witness ==
    /\ Len(frames) = 2
    /\ frames[1].fn = "remove"
    /\ frames[1].value = 50
    /\ frames[2].fn = "remove_recursive"
    /\ frames[2].at = "line 118"
    /\ frames[2].node.data = 60
    /\ KeysOf(ret.node) = {70, 80}

(***************************************************************************)
(* C28: the two threads take mainResource and pagingResource in opposite   *)
(* orders.  In the state where thread 1 holds mainResource and is at the   *)
(* lock of pagingResource while thread 2 holds pagingResource and is at    *)
(* the lock of mainResource, no step is possible: neither thread proceeds, *)
(* the state lasts for ever and main, which is in t1.join(), never gets    *)
(* past its joins.                                                         *)
(***************************************************************************)
Deadlocked ==
    /\ mainResource = "thread1"
    /\ pc.thread1 = "line 15"
    /\ pagingResource = "thread2"
    /\ pc.thread2 = "line 23"

C28_OppositeLockOrderDeadlocks ==
    /\ [](Deadlocked => ~ENABLED Next)
    /\ [](Deadlocked => pc.main = "line 8")
    /\ [][Deadlocked => Deadlocked']_vars
    /\ []((pc.thread1 = "line 15" /\ pc.thread2 = "line 23") => Deadlocked)

\* the deadlock
C28_Witness == Deadlocked

(***************************************************************************)
(* ConnectionPool: the counter and the pool.                               *)
(***************************************************************************)
\* get_connection has just refused to hand out a connection
Refused == pool_last.op = "get_connection" /\ pool_last.returned = 0

\* C29: after any calls of get_connection, release_connection,
\* cleanup_disconnected and disconnect, active_connections is the number of
\* connections the pool holds, and get_connection refuses only a pool that
\* holds max_connections connections.
C29_CounterIsPoolSize ==
    /\ active_connections = Len(connections)
    /\ Refused => Len(connections) = max_connections

(***************************************************************************)
(* FileManager: the counter and the two maps.                              *)
(***************************************************************************)
\* the step is a call of close_file
CloseStep == fm_last'.op = "close_file" /\ n_file_calls' = n_file_calls + 1

\* C30: after any calls of open_file_for_reading, create_output_file and
\* close_file, current_file_count is the number of entries of open_files
\* and output_files together and is not negative; close_file of a name that
\* is not open leaves current_file_count as it is, and close_file of an open
\* output file removes it from output_files.
C30_CountIsOpenFiles ==
    /\ [](current_file_count =
             Cardinality(open_files) + Cardinality(output_files))
    /\ [](current_file_count >= 0)
    /\ [][(CloseStep /\ fm_last'.filename \notin open_files \cup output_files)
            => current_file_count' = current_file_count]_vars
    /\ [][(CloseStep /\ fm_last'.filename \in output_files)
            => fm_last'.filename \notin output_files']_vars

=============================================================================
